---- MODULE Spec2Model ----
(***************************************************************************)
(* Model of the seismic dashboard (SeismicSimulator.jsx), the beach-ball   *)
(* component (BeachBallDiagram.jsx) and the tensor builder (tensors.js).   *)
(*                                                                         *)
(* Numbers.  The code computes in IEEE doubles.  The model computes in the *)
(* exact field Q(sqrt 2, sqrt 3) times a power of ten: a number is         *)
(*     [nan |-> FALSE, e |-> e, v |-> <<a, b, c, d>>]                      *)
(* and stands for 10^(e/100) * (a + b*sqrt2 + c*sqrt3 + d*sqrt6) / D,      *)
(* where the exponent e carries the seismic moment (magnitudes are in      *)
(* tenths, so 1.5*Mw + 9.1 is (15*Mw10 + 910)/100) and the denominator D   *)
(* is fixed per kind of quantity (2 for a sine or a cosine, 16 for a       *)
(* tensor component in units of M0, 192 for a seismogram sample            *)
(* in units of M0).  Every angle that is a multiple of 30 or of 45 degrees *)
(* has its sine and cosine in this field, so the component defaults        *)
(* (30, 45, 60 degrees) are represented exactly.  Rounding of doubles is   *)
(* not modelled.  NaN (the result of arithmetic on `undefined`) is         *)
(* [nan |-> TRUE, ...] and propagates through every operation.             *)
(***************************************************************************)
EXTENDS Integers, Sequences, FiniteSets, TLC

VARIABLES
    inputs,      \* SeismicDashboard: useState inputs
    waveforms,   \* SeismicDashboard: useState waveforms
    reqs,        \* the generateWaveforms calls issued so far, oldest first
    events,      \* weight of the clicks, edits and off-nominal answers so far
    ball,        \* InteractiveBeachBall: slider state and the useMemo result
    call         \* a call of strikeDipRakeToMomentTensor: arguments and result

vars == <<inputs, waveforms, reqs, events, ball, call>>

-----------------------------------------------------------------------------
(* Arithmetic in Q(sqrt2, sqrt3), with NaN *)

\* A number: 10^(e/100) * (v[1] + v[2] sqrt2 + v[3] sqrt3 + v[4] sqrt6) / D.
\* The exponent e carries the powers of M0 = 10^(1.5 Mw + 9.1); zero has e = 0.
NumE(e, a, b, c, d) ==
    IF a = 0 /\ b = 0 /\ c = 0 /\ d = 0
    THEN [nan |-> FALSE, e |-> 0, v |-> <<0, 0, 0, 0>>]
    ELSE [nan |-> FALSE, e |-> e, v |-> <<a, b, c, d>>]
Num(a, b, c, d) == NumE(0, a, b, c, d)
Rat(n) == Num(n, 0, 0, 0)
Zero == Rat(0)
NaN == [nan |-> TRUE, e |-> 0, v |-> <<0, 0, 0, 0>>]
IsZero(x) == ~x.nan /\ x.v = <<0, 0, 0, 0>>

\* F applied to the values of its arguments: each argument is evaluated once,
\* as a JavaScript operand is, and F sees the value.
Apply1(F(_), x) == CHOOSE r \in {F(a) : a \in {x}} : TRUE
Apply2(F(_, _), x, y) == CHOOSE r \in {F(a, b) : a \in {x}, b \in {y}} : TRUE
Apply3(F(_, _, _), x, y, z) ==
    CHOOSE r \in {F(a, b, c) : a \in {x}, b \in {y}, c \in {z}} : TRUE

AddV(a, b) ==
    IF a.nan \/ b.nan THEN NaN
    ELSE IF IsZero(a) THEN b
    ELSE IF IsZero(b) THEN a
    ELSE NumE(a.e, a.v[1] + b.v[1], a.v[2] + b.v[2], a.v[3] + b.v[3], a.v[4] + b.v[4])

\* x + y; the two operands of every sum of the program have the same power of M0
Add(x, y) == Apply2(AddV, x, y)

NegV(a) == IF a.nan THEN NaN ELSE NumE(a.e, -a.v[1], -a.v[2], -a.v[3], -a.v[4])

Neg(x) == Apply1(NegV, x)

Sub(x, y) == Add(x, Neg(y))

\* (a + b r2 + c r3 + d r6)(e + f r2 + g r3 + h r6)
MulV(p, q) ==
    IF p.nan \/ q.nan THEN NaN
    ELSE LET a == p.v[1] b == p.v[2] c == p.v[3] d == p.v[4]
             e == q.v[1] f == q.v[2] g == q.v[3] h == q.v[4]
         IN NumE(p.e + q.e,
                 a*e + 2*b*f + 3*c*g + 6*d*h,
                 a*f + b*e + 3*c*h + 3*d*g,
                 a*g + c*e + 2*b*h + 2*d*f,
                 a*h + d*e + b*g + c*f)

Mul(x, y) == Apply2(MulV, x, y)

\* k * x for an integer k
ScaleV(k, a) ==
    IF a.nan THEN NaN ELSE NumE(a.e, k * a.v[1], k * a.v[2], k * a.v[3], k * a.v[4])

Scale(k, x) == Apply2(ScaleV, k, x)

-----------------------------------------------------------------------------
(* Math.sin, Math.cos of an angle given in degrees; the result is over 2.  *)
(* deg2rad followed by Math.sin is modelled as the sine of the angle.      *)

SinQ1(d) ==
    CASE d = 0  -> Rat(0)
      [] d = 30 -> Rat(1)
      [] d = 45 -> Num(0, 1, 0, 0)
      [] d = 60 -> Num(0, 0, 1, 0)
      [] d = 90 -> Rat(2)

Sin(deg) ==
    LET d == deg % 360
    IN IF d <= 90 THEN SinQ1(d)
       ELSE IF d <= 180 THEN SinQ1(180 - d)
       ELSE IF d <= 270 THEN Neg(SinQ1(d - 180))
       ELSE Neg(SinQ1(360 - d))

Cos(deg) == Sin(deg + 90)

-----------------------------------------------------------------------------
(* tensors.js: strikeDipRakeToMomentTensor.  magnitudeMw is given in       *)
(* tenths (60 is Mw 6.0), so that 5.5 is an integer.  M0 is the number     *)
(* 10^((15 magnitudeMw + 910)/100); the six components are over 16.        *)

\* (mutant) the scalar moment with exponent 1.0 Mw + 9.1
M0UnitSlope(magnitudeMw) == NumE(10 * magnitudeMw + 910, 1, 0, 0, 0)

M0(magnitudeMw) == NumE(15 * magnitudeMw + 910, 1, 0, 0, 0)

Mul3(x, y, z) == Mul(Mul(x, y), z)
Mul4(w, x, y, z) == Mul(Mul(Mul(w, x), y), z)

\* (mutant) the builder with Mpp from sin(dip) where the code has sin(2 dip)
TensorMppSinDip(strike, dip, rake, magnitudeMw) ==
    LET m0 == M0(magnitudeMw)
        Mrr == Mul(Neg(m0),
                   Add(Scale(2, Mul3(Sin(dip), Cos(rake), Sin(2 * strike))),
                       Mul4(Sin(2 * dip), Sin(rake), Sin(strike), Sin(strike))))
        Mtt == Mul(m0,
                   Sub(Scale(2, Mul3(Sin(dip), Cos(rake), Sin(2 * strike))),
                       Mul4(Sin(2 * dip), Sin(rake), Cos(strike), Cos(strike))))
        Mpp == Mul(m0, Scale(4, Mul(Sin(dip), Sin(rake))))
        Mrp == Mul(Neg(m0),
                   Add(Scale(2, Mul3(Cos(dip), Cos(rake), Cos(strike))),
                       Scale(2, Mul3(Cos(2 * dip), Sin(rake), Sin(strike)))))
        Mtp == Mul(Neg(m0),
                   Sub(Scale(2, Mul3(Cos(dip), Cos(rake), Sin(strike))),
                       Scale(2, Mul3(Cos(2 * dip), Sin(rake), Cos(strike)))))
        Mrt == Mul(Neg(m0),
                   Add(Scale(2, Mul3(Sin(dip), Cos(rake), Cos(2 * strike))),
                       Mul3(Sin(2 * dip), Sin(rake), Sin(2 * strike))))
    IN [Mrr |-> Mrr, Mtt |-> Mtt, Mpp |-> Mpp, Mrp |-> Mrp, Mtp |-> Mtp, Mrt |-> Mrt]

strikeDipRakeToMomentTensor(strike, dip, rake, magnitudeMw) ==
    LET m0 == M0(magnitudeMw)
        \* three sines or cosines are over 8, four are over 16, two over 4
        Mrr == Mul(Neg(m0),
                   Add(Scale(2, Mul3(Sin(dip), Cos(rake), Sin(2 * strike))),
                       Mul4(Sin(2 * dip), Sin(rake), Sin(strike), Sin(strike))))
        Mtt == Mul(m0,
                   Sub(Scale(2, Mul3(Sin(dip), Cos(rake), Sin(2 * strike))),
                       Mul4(Sin(2 * dip), Sin(rake), Cos(strike), Cos(strike))))
        Mpp == Mul(m0, Scale(4, Mul(Sin(2 * dip), Sin(rake))))
        Mrp == Mul(Neg(m0),
                   Add(Scale(2, Mul3(Cos(dip), Cos(rake), Cos(strike))),
                       Scale(2, Mul3(Cos(2 * dip), Sin(rake), Sin(strike)))))
        Mtp == Mul(Neg(m0),
                   Sub(Scale(2, Mul3(Cos(dip), Cos(rake), Sin(strike))),
                       Scale(2, Mul3(Cos(2 * dip), Sin(rake), Cos(strike)))))
        \* 0.5 * (three factors over 8) is over 16
        Mrt == Mul(Neg(m0),
                   Add(Scale(2, Mul3(Sin(dip), Cos(rake), Cos(2 * strike))),
                       Mul3(Sin(2 * dip), Sin(rake), Sin(2 * strike))))
    IN [Mrr |-> Mrr, Mtt |-> Mtt, Mpp |-> Mpp, Mrp |-> Mrp, Mtp |-> Mtp, Mrt |-> Mrt]

-----------------------------------------------------------------------------
(* JavaScript arrays of numbers.  An array is kept as its length and its   *)
(* entries at the indices of ProbeIdx: every operation of the program on   *)
(* arrays (map, slice, indexing) acts index by index, so the entries at    *)
(* the other indices never influence those kept.                           *)

FallbackLen == 15520    \* Array(15520).fill(0)
OutLen == 4000          \* .slice(0, 4000)
NumProbes == 1

ProbeIdx == (0 .. NumProbes - 1) \cup {OutLen - 1}

Undefined == [kind |-> "undefined"]
IsUndefined(x) == x.kind = "undefined"

MkArray(n, F(_)) ==
    [kind |-> "array", len |-> n, at |-> [i \in ProbeIdx |-> IF i < n THEN F(i) ELSE NaN]]

\* arr[i] used as a number: an index past the end reads undefined, which
\* arithmetic turns into NaN
Get(arr, i) == IF i < arr.len THEN arr.at[i] ELSE NaN

\* a trace parsed from JSON holds plain numbers, kept as integers
MkTrace(n, F(_)) ==
    [kind |-> "array", len |-> n, at |-> [i \in ProbeIdx |-> IF i < n THEN F(i) ELSE 0]]

\* trace[i] used as a number
Sample(trace, i) == IF i < trace.len THEN Rat(trace.at[i]) ELSE NaN

EmptyArray == MkArray(0, LAMBDA i : NaN)

\* Array(n).fill(0)
ZeroFill(n) == MkTrace(n, LAMBDA i : 0)

Min(a, b) == IF a <= b THEN a ELSE b

\* arr.slice(0, n)
SliceV(a, n) == MkArray(Min(a.len, n), LAMBDA i : a.at[i])
SliceFrom0(arr, n) == Apply2(SliceV, arr, n)

-----------------------------------------------------------------------------
(* generateWaveforms: the channel table and the three linear combinations  *)

channelMap ==
    [Z |-> <<"ZSS", "ZDD", "ZEP", "ZDS">>,
     R |-> <<"RSS", "RDD", "REP", "RDS">>,
     T |-> <<"TSS", "TDS">>]

\* (mutant) the preload loop stops after the R channels
PreloadZROnly == channelMap.Z \o channelMap.R

\* the order in which the two nested for-of loops visit the channels
Preload == channelMap.Z \o channelMap.R \o channelMap.T

Channels ==
    UNION {{channelMap[c][k] : k \in 1 .. Len(channelMap[c])} : c \in {"Z", "R", "T"}}

\* const greensData = {}
EmptyGreens == [ch \in Channels |-> Undefined]

\* (mutant) the catch clause stores an empty array
FallbackEmpty == ZeroFill(0)

\* the fallback of the catch clause
Fallback == ZeroFill(FallbackLen)

\* one sample of Z; the result is over 192 = 16 * 12, in units of M0
ZSample(g, mt, azimuth, i) ==
    LET SS == Sample(g["ZSS"], i)
        DD == Sample(g["ZDD"], i)
        EP == Sample(g["ZEP"], i)
        DS == Sample(g["ZDS"], i)
        cos2az == Cos(2 * azimuth)
        sin2az == Sin(2 * azimuth)
    IN Add(Add(Add(Add(Add(
         Mul(mt.Mtt, Add(Sub(Scale(3, Mul(SS, cos2az)), Scale(2, DD)), Scale(4, EP))),
         Mul(mt.Mpp, Add(Sub(Scale(3, Mul(Neg(SS), cos2az)), Scale(2, DD)), Scale(4, EP)))),
         Mul(mt.Mrr, Add(Scale(4, DD), Scale(4, EP)))),
         Mul(mt.Mtp, Scale(6, Mul(SS, sin2az)))),
         Mul(mt.Mrt, Scale(6, Mul(DS, Cos(azimuth))))),
         Mul(mt.Mrp, Scale(6, Mul(DS, Sin(azimuth)))))

\* (mutant) the R block with the sign of the DD term of Mpp flipped
RSampleSignSlip(g, mt, azimuth, i) ==
    LET SS == Sample(g["RSS"], i)
        DD == Sample(g["RDD"], i)
        EP == Sample(g["REP"], i)
        DS == Sample(g["RDS"], i)
        cos2az == Cos(2 * azimuth)
        sin2az == Sin(2 * azimuth)
    IN Add(Add(Add(Add(Add(
         Mul(mt.Mtt, Add(Sub(Scale(3, Mul(SS, cos2az)), Scale(2, DD)), Scale(4, EP))),
         Mul(mt.Mpp, Add(Add(Scale(3, Mul(Neg(SS), cos2az)), Scale(2, DD)), Scale(4, EP)))),
         Mul(mt.Mrr, Add(Scale(4, DD), Scale(4, EP)))),
         Mul(mt.Mtp, Scale(6, Mul(SS, sin2az)))),
         Mul(mt.Mrt, Scale(6, Mul(DS, Cos(azimuth))))),
         Mul(mt.Mrp, Scale(6, Mul(DS, Sin(azimuth)))))

\* one sample of R
RSample(g, mt, azimuth, i) ==
    LET SS == Sample(g["RSS"], i)
        DD == Sample(g["RDD"], i)
        EP == Sample(g["REP"], i)
        DS == Sample(g["RDS"], i)
        cos2az == Cos(2 * azimuth)
        sin2az == Sin(2 * azimuth)
    IN Add(Add(Add(Add(Add(
         Mul(mt.Mtt, Add(Sub(Scale(3, Mul(SS, cos2az)), Scale(2, DD)), Scale(4, EP))),
         Mul(mt.Mpp, Add(Sub(Scale(3, Mul(Neg(SS), cos2az)), Scale(2, DD)), Scale(4, EP)))),
         Mul(mt.Mrr, Add(Scale(4, DD), Scale(4, EP)))),
         Mul(mt.Mtp, Scale(6, Mul(SS, sin2az)))),
         Mul(mt.Mrt, Scale(6, Mul(DS, Cos(azimuth))))),
         Mul(mt.Mrp, Scale(6, Mul(DS, Sin(azimuth)))))

\* (mutant) the T block with the DS terms read from the radial trace RDS
TSampleWrongTrace(g, mt, azimuth, i) ==
    LET SS == Sample(g["TSS"], i)
        DS == Sample(g["RDS"], i)
        cos2az == Cos(2 * azimuth)
        sin2az == Sin(2 * azimuth)
    IN Sub(Add(Sub(Sub(
         Mul(mt.Mtt, Scale(3, Mul(SS, sin2az))),
         Mul(mt.Mpp, Scale(3, Mul(SS, sin2az)))),
         Mul(mt.Mtp, Scale(6, Mul(SS, cos2az)))),
         Mul(mt.Mrt, Scale(6, Mul(DS, Sin(azimuth))))),
         Mul(mt.Mrp, Scale(6, Mul(DS, Cos(azimuth)))))

\* one sample of T
TSample(g, mt, azimuth, i) ==
    LET SS == Sample(g["TSS"], i)
        DS == Sample(g["TDS"], i)
        cos2az == Cos(2 * azimuth)
        sin2az == Sin(2 * azimuth)
    IN Sub(Add(Sub(Sub(
         Mul(mt.Mtt, Scale(3, Mul(SS, sin2az))),
         Mul(mt.Mpp, Scale(3, Mul(SS, sin2az)))),
         Mul(mt.Mtp, Scale(6, Mul(SS, cos2az)))),
         Mul(mt.Mrt, Scale(6, Mul(DS, Sin(azimuth))))),
         Mul(mt.Mrp, Scale(6, Mul(DS, Cos(azimuth)))))

\* greensData[first].map(callback) throws a TypeError when greensData[first]
\* is undefined, and the callback throws when it indexes an undefined trace;
\* the callback runs only if the mapped array has an entry
MapThrows(g, names) ==
    \/ IsUndefined(g[names[1]])
    \/ /\ g[names[1]].len > 0
       /\ \E k \in 2 .. Len(names) : IsUndefined(g[names[k]])

ComputeZ(g, mt, azimuth) ==
    SliceFrom0(MkArray(g["ZSS"].len, LAMBDA i : ZSample(g, mt, azimuth, i)), OutLen)

ComputeR(g, mt, azimuth) ==
    SliceFrom0(MkArray(g["RSS"].len, LAMBDA i : RSample(g, mt, azimuth, i)), OutLen)

ComputeT(g, mt, azimuth) ==
    SliceFrom0(MkArray(g["TSS"].len, LAMBDA i : TSample(g, mt, azimuth, i)), OutLen)

\* lines 132-186: does any of the three blocks throw?
CombineThrows(g) ==
    \/ MapThrows(g, channelMap.Z)
    \/ MapThrows(g, channelMap.R)
    \/ MapThrows(g, channelMap.T)

\* lines 132-186 when nothing throws: the object passed to setWaveforms
Combine(g, mt, azimuth) ==
    [Z |-> ComputeZ(g, mt, azimuth),
     R |-> ComputeR(g, mt, azimuth),
     T |-> ComputeT(g, mt, azimuth)]

-----------------------------------------------------------------------------
(* The Green's-function store behind fetch(`/greens/${ch}.json`)           *)

\* The environment's activity is bounded by MaxEvents: a click on Generate
\* or an edit of an input field weighs 1, a retrieval that does not return
\* the nominal record (or never settles) weighs 2.
MaxEvents == 3

AllNames == <<"ZSS", "ZDD", "ZEP", "ZDS", "RSS", "RDD", "REP", "RDS", "TSS", "TDS">>
ChannelNo(ch) == CHOOSE k \in 1 .. Len(AllNames) : AllNames[k] = ch

\* a trace of n samples for channel ch
Trace(ch, n) == MkTrace(n, LAMBDA i : ChannelNo(ch) + (i % 4))

\* lengths of the traces a record may carry besides the reference length
AltLens == {0, 2}

\* what one retrieval can come to: fetch rejects, res.json() rejects, or a
\* parsed body whose `data` is a trace or is absent
Rejected == [kind |-> "rejected"]
Unparsable == [kind |-> "unparsable"]
Record(data) == [kind |-> "record", data |-> data]

\* the record the store holds for each channel
Nominal == [ch \in Channels |-> Record(Trace(ch, FallbackLen))]

Answers ==
    [ch \in Channels |->
        {Nominal[ch], Rejected, Unparsable, Record(Undefined)}
            \cup {Record(Trace(ch, n)) : n \in AltLens}]

-----------------------------------------------------------------------------
(* SeismicDashboard *)

StrikeVals == {0, 30, 315}
DipVals == {45, 90}
RakeVals == {60, -90}
MagnitudeVals == {60, 70}
AzimuthVals == {0, 45, 120}

Values(name) ==
    CASE name = "strike" -> StrikeVals
      [] name = "dip" -> DipVals
      [] name = "rake" -> RakeVals
      [] name = "magnitude" -> MagnitudeVals
      [] name = "azimuth" -> AzimuthVals

InputNames == {"strike", "dip", "rake", "magnitude", "azimuth"}

\* useState({strike: 30, dip: 45, rake: 60, magnitude: 6, azimuth: 45})
InitInputs == [strike |-> 30, dip |-> 45, rake |-> 60, magnitude |-> 60, azimuth |-> 45]

\* useState({Z: [], R: [], T: []})
InitWaveforms == [Z |-> EmptyArray, R |-> EmptyArray, T |-> EmptyArray]

\* (mutant) the preload loop rescans the channels from the first one
NextFetchRescan(g, k) ==
    LET todo == {j \in 1 .. Len(Preload) : IsUndefined(g[Preload[j]])}
    IN IF todo = {} THEN Len(Preload) + 1
       ELSE CHOOSE j \in todo : \A j2 \in todo : j <= j2

\* the position of the preload loop: the first channel at or after k whose
\* greensData entry is falsy, Len(Preload)+1 when the loop is over
NextFetch(g, k) ==
    LET todo == {j \in k .. Len(Preload) : IsUndefined(g[Preload[j]])}
    IN IF todo = {} THEN Len(Preload) + 1
       ELSE CHOOSE j \in todo : \A j2 \in todo : j <= j2

\* the value the try/catch leaves in greensData[ch]
Resolve(answer) ==
    IF answer.kind = "record" THEN answer.data ELSE Fallback

\* handleChange: setInputs({...inputs, [name]: parseFloat(value)}); the
\* field's onChange fires when its value changes
handleChange(name, value) ==
    /\ events < MaxEvents
    /\ value # inputs[name]
    /\ inputs' = [inputs EXCEPT ![name] = value]
    /\ events' = events + 1
    /\ UNCHANGED <<waveforms, reqs, ball, call>>

\* generateWaveforms up to its first await: the inputs are read, the tensor
\* is built and the first fetch is issued.  outcome, resolved, output, log
\* (the channels fetched so far, in order) and during (the requests still
\* fetching when this one was issued) record what happened to the request;
\* the program does not read them.
StartRequest ==
    [inputs |-> inputs,
     mt |-> strikeDipRakeToMomentTensor(inputs.strike, inputs.dip, inputs.rake,
                                        inputs.magnitude),
     greensData |-> EmptyGreens,
     pc |-> NextFetch(EmptyGreens, 1),
     log |-> <<Preload[NextFetch(EmptyGreens, 1)]>>,
     during |-> {r \in 1 .. Len(reqs) : reqs[r].status = "fetching"},
     outcome |-> [ch \in Channels |-> "none"],
     resolved |-> {},
     output |-> InitWaveforms,
     status |-> "fetching"]

generateWaveforms ==
    /\ events < MaxEvents
    /\ reqs' = Append(reqs, StartRequest)
    /\ events' = events + 1
    /\ UNCHANGED <<inputs, waveforms, ball, call>>

\* (mutant) the combination reads the inputs of the current render
FinishCurrentInputs(q) ==
    IF CombineThrows(q.greensData)
    THEN [q EXCEPT !.status = "threw"]
    ELSE [q EXCEPT !.status = "done",
                   !.output = Combine(q.greensData,
                                      strikeDipRakeToMomentTensor(
                                          inputs.strike, inputs.dip, inputs.rake,
                                          inputs.magnitude),
                                      inputs.azimuth)]

\* the request's state once the preload loop is over: the three blocks run
\* and setWaveforms is called, or a TypeError ends the async function
Finish(q) ==
    IF CombineThrows(q.greensData)
    THEN [q EXCEPT !.status = "threw"]
    ELSE [q EXCEPT !.status = "done",
                   !.output = Combine(q.greensData, q.mt, q.inputs.azimuth)]

\* the continuation that runs when the pending retrieval of request r
\* settles with `answer` (the two awaits of one iteration are one step:
\* nothing of the program's state changes between them): greensData[ch] is
\* assigned, and the loop either issues the next fetch or falls through to
\* the combination and setWaveforms
Settle(r, answer) ==
    LET q == reqs[r]
        ch == Preload[q.pc]
        g == [q.greensData EXCEPT ![ch] = Resolve(answer)]
        next == NextFetch(g, q.pc + 1)
        q1 == [q EXCEPT !.greensData = g, !.pc = next,
                        !.log = IF next > Len(Preload) THEN q.log
                                ELSE Append(q.log, Preload[next]),
                        !.outcome[ch] = answer.kind,
                        !.resolved = q.resolved \cup {ch}]
        q2 == IF next > Len(Preload) THEN Finish(q1) ELSE q1
    IN /\ q.status = "fetching"
       /\ answer \in Answers[ch]
       /\ answer # Nominal[ch] => events + 2 <= MaxEvents
       /\ events' = IF answer # Nominal[ch] THEN events + 2 ELSE events
       /\ reqs' = [reqs EXCEPT ![r] = q2]
       /\ waveforms' = IF q2.status = "done" THEN q2.output ELSE waveforms
       /\ UNCHANGED <<inputs, ball, call>>

\* the pending retrieval of request r is one that never settles: the await
\* never resumes (the code sets no timeout and no AbortSignal)
Stall(r) ==
    /\ reqs[r].status = "fetching"
    /\ events + 2 <= MaxEvents
    /\ events' = events + 2
    /\ reqs' = [reqs EXCEPT ![r].status = "stalled"]
    /\ UNCHANGED <<inputs, waveforms, ball, call>>

\* the answers the pending retrieval of request r can settle with
Pending(r) ==
    IF reqs[r].status = "fetching" THEN Answers[Preload[reqs[r].pc]] ELSE {}

-----------------------------------------------------------------------------
(* SeismicPlot: the second copy of the synthesizer (SeismicPlot.jsx lines  *)
(* 21-110), translated from its own text                                   *)

PlotFallbackLen == 15520    \* Array(15520).fill(0)
PlotOutLen == 4000          \* .slice(0, 4000)

\* lines 29-33
PlotChannelMap ==
    [Z |-> <<"ZSS", "ZDD", "ZEP", "ZDS">>,
     R |-> <<"RSS", "RDD", "REP", "RDS">>,
     T |-> <<"TSS", "TDS">>]

\* lines 38-39: the order in which the channels are visited
PlotPreload == PlotChannelMap.Z \o PlotChannelMap.R \o PlotChannelMap.T

\* line 47: the value the catch clause stores
PlotFallback == ZeroFill(PlotFallbackLen)

\* lines 56-70: one sample of Z, over 192 in units of M0
PlotZSample(g, mt, azimuth, i) ==
    LET SS == Sample(g["ZSS"], i)
        DD == Sample(g["ZDD"], i)
        EP == Sample(g["ZEP"], i)
        DS == Sample(g["ZDS"], i)
        cos2az == Cos(2 * azimuth)
        sin2az == Sin(2 * azimuth)
    IN Add(Add(Add(Add(Add(
         Mul(mt.Mtt, Add(Sub(Scale(3, Mul(SS, cos2az)), Scale(2, DD)), Scale(4, EP))),
         Mul(mt.Mpp, Add(Sub(Scale(3, Mul(Neg(SS), cos2az)), Scale(2, DD)), Scale(4, EP)))),
         Mul(mt.Mrr, Add(Scale(4, DD), Scale(4, EP)))),
         Mul(mt.Mtp, Scale(6, Mul(SS, sin2az)))),
         Mul(mt.Mrt, Scale(6, Mul(DS, Cos(azimuth))))),
         Mul(mt.Mrp, Scale(6, Mul(DS, Sin(azimuth)))))

\* lines 77-91: one sample of R
PlotRSample(g, mt, azimuth, i) ==
    LET SS == Sample(g["RSS"], i)
        DD == Sample(g["RDD"], i)
        EP == Sample(g["REP"], i)
        DS == Sample(g["RDS"], i)
        cos2az == Cos(2 * azimuth)
        sin2az == Sin(2 * azimuth)
    IN Add(Add(Add(Add(Add(
         Mul(mt.Mtt, Add(Sub(Scale(3, Mul(SS, cos2az)), Scale(2, DD)), Scale(4, EP))),
         Mul(mt.Mpp, Add(Sub(Scale(3, Mul(Neg(SS), cos2az)), Scale(2, DD)), Scale(4, EP)))),
         Mul(mt.Mrr, Add(Scale(4, DD), Scale(4, EP)))),
         Mul(mt.Mtp, Scale(6, Mul(SS, sin2az)))),
         Mul(mt.Mrt, Scale(6, Mul(DS, Cos(azimuth))))),
         Mul(mt.Mrp, Scale(6, Mul(DS, Sin(azimuth)))))

\* (mutant) the T block with its last term added
PlotTSampleSignSlip(g, mt, azimuth, i) ==
    LET SS == Sample(g["TSS"], i)
        DS == Sample(g["TDS"], i)
        cos2az == Cos(2 * azimuth)
        sin2az == Sin(2 * azimuth)
    IN Add(Add(Sub(Sub(
         Mul(mt.Mtt, Scale(3, Mul(SS, sin2az))),
         Mul(mt.Mpp, Scale(3, Mul(SS, sin2az)))),
         Mul(mt.Mtp, Scale(6, Mul(SS, cos2az)))),
         Mul(mt.Mrt, Scale(6, Mul(DS, Sin(azimuth))))),
         Mul(mt.Mrp, Scale(6, Mul(DS, Cos(azimuth)))))

\* lines 98-105: one sample of T
PlotTSample(g, mt, azimuth, i) ==
    LET SS == Sample(g["TSS"], i)
        DS == Sample(g["TDS"], i)
        cos2az == Cos(2 * azimuth)
        sin2az == Sin(2 * azimuth)
    IN Sub(Add(Sub(Sub(
         Mul(mt.Mtt, Scale(3, Mul(SS, sin2az))),
         Mul(mt.Mpp, Scale(3, Mul(SS, sin2az)))),
         Mul(mt.Mtp, Scale(6, Mul(SS, cos2az)))),
         Mul(mt.Mrt, Scale(6, Mul(DS, Sin(azimuth))))),
         Mul(mt.Mrp, Scale(6, Mul(DS, Cos(azimuth)))))

\* lines 53-107: does any of the three blocks throw?
PlotCombineThrows(g) ==
    \/ MapThrows(g, PlotChannelMap.Z)
    \/ MapThrows(g, PlotChannelMap.R)
    \/ MapThrows(g, PlotChannelMap.T)

\* lines 53-107 when nothing throws: the object passed to setWaveforms
PlotCombine(g, mt, azimuth) ==
    [Z |-> SliceFrom0(MkArray(g["ZSS"].len,
                              LAMBDA i : PlotZSample(g, mt, azimuth, i)), PlotOutLen),
     R |-> SliceFrom0(MkArray(g["RSS"].len,
                              LAMBDA i : PlotRSample(g, mt, azimuth, i)), PlotOutLen),
     T |-> SliceFrom0(MkArray(g["TSS"].len,
                              LAMBDA i : PlotTSample(g, mt, azimuth, i)), PlotOutLen)]

\* lines 38-40: the first channel at or after k whose entry is falsy
PlotNextFetch(g, k) ==
    LET todo == {j \in k .. Len(PlotPreload) : IsUndefined(g[PlotPreload[j]])}
    IN IF todo = {} THEN Len(PlotPreload) + 1
       ELSE CHOOSE j \in todo : \A j2 \in todo : j <= j2

\* lines 41-48: the value the try/catch leaves in greensData[ch]
PlotResolve(answer) ==
    IF answer.kind = "record" THEN answer.data ELSE PlotFallback

\* lines 22-42: the request up to its first await, issued with inputs `in`
PlotStartRequest(in) ==
    [inputs |-> in,
     mt |-> strikeDipRakeToMomentTensor(in.strike, in.dip, in.rake, in.magnitude),
     greensData |-> [ch \in Channels |-> Undefined],
     pc |-> 1,
     log |-> <<PlotPreload[1]>>,
     output |-> InitWaveforms,
     status |-> "fetching"]

\* lines 53-109: the three blocks and setWaveforms, or a TypeError
PlotFinish(q) ==
    IF PlotCombineThrows(q.greensData)
    THEN [q EXCEPT !.status = "threw"]
    ELSE [q EXCEPT !.status = "done",
                   !.output = PlotCombine(q.greensData, q.mt, q.inputs.azimuth)]

\* the answers of the store to the ten channels, one of them at most not
\* being the store's record
TwinAnswers ==
    UNION {{[ch \in Channels |-> IF ch = c THEN a ELSE Nominal[ch]] :
                a \in Answers[c]} : c \in Channels}

\* the inputs both copies are started with
TwinInputs == {[InitInputs EXCEPT !.azimuth = a] : a \in AzimuthVals}

\* the pending retrieval of SeismicPlot's request settles with the store's
\* answer for its channel; call.waveforms is SeismicPlot's state `waveforms`
PlotSettle ==
    LET q == call.req
        ch == PlotPreload[q.pc]
        g == [q.greensData EXCEPT ![ch] = PlotResolve(call.answers[ch])]
        next == PlotNextFetch(g, q.pc + 1)
        q1 == [q EXCEPT !.greensData = g, !.pc = next,
                        !.log = IF next > Len(PlotPreload) THEN q.log
                                ELSE Append(q.log, PlotPreload[next])]
        q2 == IF next > Len(PlotPreload) THEN PlotFinish(q1) ELSE q1
    IN /\ call.pc = "twin"
       /\ q.status = "fetching"
       /\ call' = [call EXCEPT !.req = q2,
                               !.waveforms = IF q2.status = "done" THEN q2.output
                                             ELSE @]
       /\ UNCHANGED <<inputs, waveforms, reqs, events, ball>>

\* SeismicSimulator's request up to its first await, issued with inputs
\* `in` when no other request is running
FirstRequest(in) ==
    [inputs |-> in,
     mt |-> strikeDipRakeToMomentTensor(in.strike, in.dip, in.rake, in.magnitude),
     greensData |-> EmptyGreens,
     pc |-> NextFetch(EmptyGreens, 1),
     log |-> <<Preload[NextFetch(EmptyGreens, 1)]>>,
     during |-> {},
     outcome |-> [ch \in Channels |-> "none"],
     resolved |-> {},
     output |-> InitWaveforms,
     status |-> "fetching"]

\* the pending retrieval of SeismicSimulator's request settles with the
\* store's answer for its channel
SimSettle ==
    /\ call.pc = "twin"
    /\ reqs[1].status = "fetching"
    /\ Settle(1, call.answers[Preload[reqs[1].pc]])

-----------------------------------------------------------------------------
(* downloadWaveforms (SeismicSimulator.jsx lines 191-214)                  *)

\* arr[i]: the entry, or undefined past the end
Elem(arr, i) ==
    IF i < arr.len THEN [kind |-> "number", val |-> arr.at[i]] ELSE Undefined

\* line 191: time[i] = i / 4 for i < 4000, kept in quarters of a second
TimeAt(i) ==
    IF i < OutLen THEN [kind |-> "number", val |-> Rat(i)] ELSE Undefined

\* `${v}` in the template literal of line 203: undefined and NaN give their
\* names, any other number its decimal text (which determines the number)
TemplateText(v) ==
    IF IsUndefined(v) THEN [text |-> "undefined"]
    ELSE IF v.val.nan THEN [text |-> "NaN"]
    ELSE [text |-> "decimal", of |-> v.val]

\* lines 194-199 and 203: the row of index i, as its four cells
Row(w, i) ==
    <<TemplateText(TimeAt(i)), TemplateText(Elem(w.Z, i)),
      TemplateText(Elem(w.R, i)), TemplateText(Elem(w.T, i))>>

\* lines 194-205: the header and one row per index of waveforms.Z
Export(w) ==
    [header |-> "time,Z,R,T",
     len |-> w.Z.len,
     at |-> [i \in ProbeIdx |-> IF i < w.Z.len THEN Row(w, i) ELSE <<>>]]

\* the click on Download: the text is built from the state `waveforms` and
\* handed to the browser
downloadWaveforms ==
    /\ call.pc = "idle"
    /\ call' = [pc |-> "downloaded", csv |-> Export(waveforms)]
    /\ UNCHANGED <<inputs, waveforms, reqs, events, ball>>

\* a request issued with inputs `in` whose retrievals have all settled,
\* channel c with answer a and the others with the store's record
Settled(in, c, a) ==
    Finish([inputs |-> in,
            mt |-> strikeDipRakeToMomentTensor(in.strike, in.dip, in.rake,
                                               in.magnitude),
            greensData |->
                [ch \in Channels |-> Resolve(IF ch = c THEN a ELSE Nominal[ch])],
            pc |-> Len(Preload) + 1,
            log |-> Preload,
            during |-> {},
            outcome |-> [ch \in Channels |-> IF ch = c THEN a.kind ELSE "record"],
            resolved |-> Channels,
            output |-> InitWaveforms,
            status |-> "fetching"])

-----------------------------------------------------------------------------
(* InteractiveBeachBall: the sliders and the useMemo block (lines 14-40)   *)

MaxEig == 1     \* the solver's eigenvalues are integers in -MaxEig .. MaxEig

\* eig.realEigenvalues of the ml-matrix solver: three reals in the solver's
\* order.  The solver is a library; the model lets it return any triple.
EigenvalueTriples == [1 .. 3 -> -MaxEig .. MaxEig]

\* slider positions: <input type="range"> of 0..360, 0..90 and -180..180
StrikeSlider == {30, 135, 360}
DipSlider == {60, 90}
RakeSlider == {-90, 180}

\* eigenvalues.map((val, i) => ({val, vec: eigenvectors.map(row => row[i])})):
\* the eigenvector is kept as the index of its column
EigenPairs(eigenvalues) == [i \in 1 .. 3 |-> [val |-> eigenvalues[i], col |-> i]]

\* (mutant) an insertion that puts a pair before the pairs it compares equal to
InsertBeforeEqual(p, sorted) ==
    LET before == {k \in 1 .. Len(sorted) : sorted[k].val - p.val < 0}
        n == Cardinality(before)
    IN SubSeq(sorted, 1, n) \o <<p>> \o SubSeq(sorted, n + 1, Len(sorted))

\* p put into the sorted sequence after every pair that does not compare
\* greater, the comparator being (a, b) => a.val - b.val
Insert(p, sorted) ==
    LET before == {k \in 1 .. Len(sorted) : sorted[k].val - p.val <= 0}
        n == Cardinality(before)
    IN SubSeq(sorted, 1, n) \o <<p>> \o SubSeq(sorted, n + 1, Len(sorted))

\* Array.prototype.sort((a, b) => a.val - b.val): a stable sort
RECURSIVE SortByVal(_)
SortByVal(pairs) ==
    IF pairs = <<>> THEN <<>>
    ELSE Insert(pairs[Len(pairs)], SortByVal(SubSeq(pairs, 1, Len(pairs) - 1)))

magnitudeMw == 55    \* const magnitudeMw = 5.5, in tenths

\* the useMemo callback, given the tensor it builds and what the solver
\* returns for it
\* (mutant) the matrix with Mrp and Mtp in each other's place
MatrixSwapped(mt) ==
    <<<<mt.Mrr, mt.Mrt, mt.Mtp>>,
      <<mt.Mrt, mt.Mtt, mt.Mrp>>,
      <<mt.Mtp, mt.Mrp, mt.Mpp>>>>

\* lines 17-21: the matrix handed to EigenvalueDecomposition
Matrix(mt) ==
    <<<<mt.Mrr, mt.Mrt, mt.Mrp>>,
      <<mt.Mrt, mt.Mtt, mt.Mtp>>,
      <<mt.Mrp, mt.Mtp, mt.Mpp>>>>

Memo(mt, eigenvalues) ==
    LET sorted == SortByVal(EigenPairs(eigenvalues))
    IN [mt |-> mt, M |-> Matrix(mt), eigenvalues |-> eigenvalues,
        P |-> sorted[1], B |-> sorted[2], T |-> sorted[3]]

\* one render of the component with the sliders at strike, dip and rake
Render(strike, dip, rake) ==
    LET mt == strikeDipRakeToMomentTensor(strike, dip, rake, magnitudeMw)
    IN {[strike |-> strike, dip |-> dip, rake |-> rake, memo |-> Memo(mt, ev)] :
            ev \in EigenvalueTriples}

\* setStrike, setDip, setRake: a slider moves to another value and the
\* component renders again, which runs the useMemo callback
setStrike(v) ==
    /\ v # ball.strike
    /\ ball' \in Render(v, ball.dip, ball.rake)
    /\ UNCHANGED <<inputs, waveforms, reqs, events, call>>

setDip(v) ==
    /\ v # ball.dip
    /\ ball' \in Render(ball.strike, v, ball.rake)
    /\ UNCHANGED <<inputs, waveforms, reqs, events, call>>

setRake(v) ==
    /\ v # ball.rake
    /\ ball' \in Render(ball.strike, ball.dip, v)
    /\ UNCHANGED <<inputs, waveforms, reqs, events, call>>

NextBall ==
    \/ \E v \in StrikeSlider : setStrike(v)
    \/ \E v \in DipSlider : setDip(v)
    \/ \E v \in RakeSlider : setRake(v)

-----------------------------------------------------------------------------
(* Calls of strikeDipRakeToMomentTensor on arguments of its whole domain   *)

Multiples == {0, 30, 45, 60, 90, 120, 135, 150, 180}
StrikeArgs == Multiples \cup {180 + d : d \in Multiples}
DipArgs == {0, 30, 45, 60, 90, 135}
RakeArgs == {d - 180 : d \in StrikeArgs}
MagnitudeArgs == {0, 55, 60, 70}

NoCall == [pc |-> "idle"]

Calls ==
    {[pc |-> "called", strike |-> s, dip |-> d, rake |-> k, magnitudeMw |-> m] :
        s \in StrikeArgs, d \in DipArgs, k \in RakeArgs, m \in MagnitudeArgs}

Return ==
    /\ call.pc = "called"
    /\ call' = [pc |-> "returned", strike |-> call.strike, dip |-> call.dip,
                rake |-> call.rake, magnitudeMw |-> call.magnitudeMw,
                mt |-> strikeDipRakeToMomentTensor(call.strike, call.dip, call.rake,
                                                   call.magnitudeMw)]
    /\ UNCHANGED <<inputs, waveforms, reqs, events, ball>>

-----------------------------------------------------------------------------
(* Comparison with zero, exact in Q(sqrt2, sqrt3) *)

SgnInt(n) == IF n > 0 THEN 1 ELSE IF n < 0 THEN -1 ELSE 0

\* the sign of A - B sqrt2 for naturals A and B, by the continued fraction
\* of sqrt2: for B < A < 2B, A/B > sqrt2 iff (2B - A)/(A - B) < sqrt2
RECURSIVE CmpSqrt2(_, _)
CmpSqrt2(A, B) ==
    IF B = 0 THEN SgnInt(A)
    ELSE IF A >= 2 * B THEN 1
    ELSE IF A <= B THEN -1
    ELSE -CmpSqrt2(2 * B - A, A - B)

\* the sign of a + b sqrt2
SignQ2(a, b) ==
    IF b = 0 \/ SgnInt(a) = SgnInt(b) THEN SgnInt(a)
    ELSE IF a = 0 THEN SgnInt(b)
    ELSE IF a > 0 THEN CmpSqrt2(a, -b)
    ELSE -CmpSqrt2(-a, b)

\* the sign of (a + b sqrt2) + (c + d sqrt2) sqrt3: when the two parts have
\* opposite signs, the larger of p^2 and 3 q^2 decides
SignV(v) ==
    LET a == v[1] b == v[2] c == v[3] d == v[4]
        sp == SignQ2(a, b)
        sq == SignQ2(c, d)
    IN IF sq = 0 \/ sp = sq THEN sp
       ELSE IF sp = 0 THEN sq
       ELSE IF SignQ2(a*a + 2*b*b - 3*c*c - 6*d*d, 2*a*b - 6*c*d) > 0 THEN sp
       ELSE sq

\* -1, 0 or 1 for a number that is not NaN
Sign(x) == SignV(x.v)

\* x >= 0, which is false for NaN
GE0(x) == ~x.nan /\ Sign(x) >= 0

\* Math.abs
AbsV(x) == IF x.nan THEN NaN ELSE IF SignV(x.v) < 0 THEN NegV(x) ELSE x
Abs(x) == Apply1(AbsV, x)

-----------------------------------------------------------------------------
(* BeachBallDiagram.jsx: directions and the radiation amplitude.  The      *)
(* components of a direction are over 4, an amplitude is over 256.         *)

\* the point of the unit sphere at colatitude theta and longitude phi (lines
\* 181-183): x = sin(theta) cos(phi), y = sin(theta) sin(phi), z = cos(theta)
Spherical(theta, phi) ==
    <<Mul(Sin(theta), Cos(phi)), Mul(Sin(theta), Sin(phi)), Scale(2, Cos(theta))>>

\* x^2 + y^2 + z^2, over 16
LengthSq(v) == Add(Add(Mul(v[1], v[1]), Mul(v[2], v[2])), Mul(v[3], v[3]))

\* THREE.Vector3.normalize: division by the length.  The vectors the
\* component normalizes are points of the unit sphere, whose length is 1; a
\* vector of another length has no image in the model's field.
Normalize(v) == IF LengthSq(v) = Rat(16) THEN v ELSE <<NaN, NaN, NaN>>

NegVec(v) == <<Neg(v[1]), Neg(v[2]), Neg(v[3])>>

\* (mutant) the amplitude with the Mrp term linear in the direction
AmplitudeOddTerm(mt, dir) ==
    Add(Add(Add(Add(Add(
        Mul(Mul(mt.Mrr, dir[1]), dir[1]),
        Mul(Mul(mt.Mtt, dir[2]), dir[2])),
        Mul(Mul(mt.Mpp, dir[3]), dir[3])),
        Mul(Mul(Scale(2, mt.Mrt), dir[1]), dir[2])),
        Mul(Mul(Scale(2, mt.Mrp), dir[1]), Rat(4))),
        Mul(Mul(Scale(2, mt.Mtp), dir[2]), dir[3]))

\* lines 155-161 and 187-193: the amplitude u at the direction dir
Amplitude(mt, dir) ==
    Add(Add(Add(Add(Add(
        Mul(Mul(mt.Mrr, dir[1]), dir[1]),
        Mul(Mul(mt.Mtt, dir[2]), dir[2])),
        Mul(Mul(mt.Mpp, dir[3]), dir[3])),
        Mul(Mul(Scale(2, mt.Mrt), dir[1]), dir[2])),
        Mul(Mul(Scale(2, mt.Mrp), dir[1]), dir[3])),
        Mul(Mul(Scale(2, mt.Mtp), dir[2]), dir[3]))

\* (mutant) the sample classified black only when u > 0
DotStrict(mt, theta, phi) ==
    LET x == Mul(Sin(theta), Cos(phi))
        y == Mul(Sin(theta), Sin(phi))
        z == Neg(Abs(Scale(2, Cos(theta))))
        dir == Normalize(<<x, y, z>>)
        u == Amplitude(mt, dir)
    IN [pos |-> <<x, y, z>>,
        color |-> IF ~u.nan /\ Sign(u) > 0 THEN "black" ELSE "white"]

\* lines 148-164: one sample of generateShadedDots, Math.random() having
\* given the colatitude theta = acos(random) and the longitude phi
Dot(mt, theta, phi) ==
    LET x == Mul(Sin(theta), Cos(phi))
        y == Mul(Sin(theta), Sin(phi))
        z == Neg(Abs(Scale(2, Cos(theta))))
        dir == Normalize(<<x, y, z>>)
        u == Amplitude(mt, dir)
    IN [pos |-> <<x, y, z>>, color |-> IF GE0(u) THEN "black" ELSE "white"]

\* lines 177-193: the amplitude at the vertex (i, j) of generateRadiationLobe
latSteps == 40
lonSteps == 80
LobeDir(i, j) == Normalize(Spherical((i * 180) \div latSteps, (j * 360) \div lonSteps))
LobeAmplitude(mt, i, j) == Amplitude(mt, LobeDir(i, j))

\* the vertices whose angles are multiples of 45 degrees
LobeProbes == {<<i, j>> \in (0 .. latSteps) \X (0 .. lonSteps) : i % 10 = 0 /\ j % 10 = 0}

\* what Math.random() can give: acos(random) is in (0, 90] degrees and
\* random * 2 pi in [0, 360)
ThetaVals == {30, 45, 90}
PhiVals == {0, 45, 120, 210}

\* the calls generateShadedDots(mt, count) that are followed
MaxCount == 2
DotArgs == {<<30, 60, -90>>, <<135, 90, 180>>, <<0, 45, 60>>, <<315, 30, -120>>}

DotCalls ==
    {[pc |-> "loop", count |-> n, i |-> 0, dots |-> <<>>,
      mt |-> strikeDipRakeToMomentTensor(a[1], a[2], a[3], magnitudeMw)] :
        a \in DotArgs, n \in 0 .. MaxCount}

\* one iteration of the for loop of generateShadedDots
generateShadedDotsLoop ==
    /\ call.pc = "loop"
    /\ call.i < call.count
    /\ \E theta \in ThetaVals : \E phi \in PhiVals :
          call' = [call EXCEPT !.dots = Append(@, Dot(call.mt, theta, phi)),
                               !.i = @ + 1]
    /\ UNCHANGED <<inputs, waveforms, reqs, events, ball>>

\* the loop is over: return dots
generateShadedDotsReturn ==
    /\ call.pc = "loop"
    /\ ~(call.i < call.count)
    /\ call' = [call EXCEPT !.pc = "returned"]
    /\ UNCHANGED <<inputs, waveforms, reqs, events, ball>>

-----------------------------------------------------------------------------
(* generateNodalGreatCircles.  Here the rounding of doubles decides: with  *)
(* Math.PI = pi - delta (delta about 1.22e-16), degToRad(180) is Math.PI,  *)
(* so Math.sin gives delta where the sine of 180 degrees is 0, Math.cos    *)
(* gives delta/2 at 90 degrees and Math.tan gives 2/delta there.  A number *)
(* is kept as its leading term c * delta^k: [k |-> k, c |-> c] with c a    *)
(* number of Q(sqrt2, sqrt3), zero being [k |-> 0, c |-> Zero].  A term of *)
(* higher order in delta is below 1e-15 of the leading one.                *)

Lead(k, c) == IF IsZero(c) THEN [k |-> 0, c |-> Zero] ELSE [k |-> k, c |-> c]
LZero == Lead(0, Zero)
LIsZero(a) == IsZero(a.c)

LMul(a, b) == Lead(a.k + b.k, Mul(a.c, b.c))
LNeg(a) == Lead(a.k, Neg(a.c))
LScale(n, a) == Lead(a.k, Scale(n, a.c))

\* a + b: the term of lower order dominates; two terms of the same order
\* add, and cancel exactly when they are the same double
LAdd(a, b) ==
    IF LIsZero(a) THEN b
    ELSE IF LIsZero(b) THEN a
    ELSE IF a.k < b.k THEN a
    ELSE IF b.k < a.k THEN b
    ELSE Lead(a.k, Add(a.c, b.c))

LSub(a, b) == LAdd(a, LNeg(b))

\* Math.sin(degToRad(a)), over 2: sin(Math.PI) = delta, sin(2 Math.PI) = -2 delta
SinD(a) ==
    IF a = 0 THEN LZero
    ELSE IF a = 180 THEN Lead(1, Rat(2))
    ELSE IF a = 360 THEN Lead(1, Rat(-4))
    ELSE Lead(0, Sin(a))

\* Math.cos(degToRad(a)), over 2: cos(Math.PI/2) = delta/2,
\* cos(3 Math.PI/2) = -3 delta/2
CosD(a) ==
    IF a = 90 THEN Lead(1, Rat(1))
    ELSE IF a = 270 THEN Lead(1, Rat(-3))
    ELSE Lead(0, Cos(a))

\* Math.tan of a dip in radians, over 3: tan(Math.PI/2) = 2/delta
TanD(dip) ==
    CASE dip = 0 -> LZero
      [] dip = 30 -> Lead(0, Num(0, 0, 1, 0))
      [] dip = 45 -> Lead(0, Rat(3))
      [] dip = 60 -> Lead(0, Num(0, 0, 3, 0))
      [] dip = 90 -> Lead(-1, Rat(6))

\* Math.acos of a number over 4, in degrees: the arc cosine of a number of
\* the order of delta is Math.PI/2 after rounding
AcosD(x) ==
    IF LIsZero(x) \/ x.k > 0 THEN 90
    ELSE CHOOSE d \in {0, 30, 45, 60, 120, 135, 150, 180} : Scale(2, Cos(d)) = x.c

\* (mutant) the auxiliary strike not reduced modulo a full turn
PlanesNoWrap(strikeDeg, dipDeg) ==
    <<[strike |-> strikeDeg, dip |-> dipDeg],
      [strike |-> strikeDeg + 90,
       dip |-> AcosD(LMul(CosD(dipDeg), CosD(90)))]>>

\* lines 207-216: the two planes, angles in degrees
Planes(strikeDeg, dipDeg) ==
    <<[strike |-> strikeDeg, dip |-> dipDeg],
      [strike |-> (strikeDeg + 90) % 360,
       dip |-> AcosD(LMul(CosD(dipDeg), CosD(90)))]>>

\* THREE.Vector3.normalize on <<x, y, z>>: the components of the leading
\* order (the others vanish against them) and the square of their length;
\* the result stands for v / sqrt(len2).  length() || 1 divides by 1 when the
\* length is 0.
NormalizeL(p) ==
    LET ks == {p[n].k : n \in {n \in 1 .. 3 : ~LIsZero(p[n])}}
        m == IF ks = {} THEN 0 ELSE CHOOSE k \in ks : \A k2 \in ks : k <= k2
        v == [n \in 1 .. 3 |-> IF ~LIsZero(p[n]) /\ p[n].k = m THEN p[n].c ELSE Zero]
        l == LengthSq(v)
    IN [v |-> v, len2 |-> IF IsZero(l) THEN Rat(1) ELSE l]

\* lines 220-227: the point of the plane's loop at azimuth a (in degrees),
\* its components over 12
CirclePoint(plane, a) ==
    LET x == CosD(a)
        y == SinD(a)
        z == LNeg(LMul(TanD(plane.dip),
                       LSub(LMul(x, SinD(plane.strike)), LMul(y, CosD(plane.strike)))))
    IN NormalizeL(<<LScale(6, x), LScale(6, y), z>>)

\* the azimuths of the loop a = 0 .. 360 that are followed
AzProbes == {0, 90, 180, 270, 360}

\* lines 218-229: the loop of one plane
GreatCircle(plane) == [a \in AzProbes |-> CirclePoint(plane, a)]

\* generateNodalGreatCircles(strikeDeg, dipDeg, rakeDeg)
generateNodalGreatCircles(strikeDeg, dipDeg, rakeDeg) ==
    LET planes == Planes(strikeDeg, dipDeg)
    IN [n \in 1 .. Len(planes) |-> GreatCircle(planes[n])]

\* the calls that are followed: the positions of the three sliders
CircleStrikes == StrikeArgs
CircleDips == {0, 30, 45, 60, 90}
CircleRakes == {-90, 60}

CircleCalls ==
    {[pc |-> "called", strikeDeg |-> s, dipDeg |-> d, rakeDeg |-> k] :
        s \in CircleStrikes, d \in CircleDips, k \in CircleRakes}

ReturnCircles ==
    /\ call.pc = "called"
    /\ call' = [pc |-> "returned", strikeDeg |-> call.strikeDeg, dipDeg |-> call.dipDeg,
                rakeDeg |-> call.rakeDeg,
                planes |-> Planes(call.strikeDeg, call.dipDeg),
                nodalLines |-> generateNodalGreatCircles(call.strikeDeg, call.dipDeg,
                                                         call.rakeDeg)]
    /\ UNCHANGED <<inputs, waveforms, reqs, events, ball>>

-----------------------------------------------------------------------------
(* The specifications *)

InitDashboard ==
    /\ inputs = InitInputs
    /\ waveforms = InitWaveforms
    /\ reqs = <<>>
    /\ events = 0

\* the beach ball as first rendered, the solver returning -1, 0, 1
FirstBall ==
    CHOOSE b \in Render(30, 60, -90) : b.memo.eigenvalues = [i \in 1 .. 3 |-> i - 2]

\* the dashboard (SeismicSimulator is the component App renders)
Init ==
    /\ InitDashboard
    /\ ball = FirstBall
    /\ call = NoCall

Next ==
    \/ \E name \in InputNames : \E value \in Values(name) : handleChange(name, value)
    \/ generateWaveforms
    \/ \E r \in 1 .. Len(reqs) : \E answer \in Pending(r) : Settle(r, answer)
    \/ \E r \in 1 .. Len(reqs) : Stall(r)

Spec == Init /\ [][Next]_vars

\* every pending retrieval that can settle does settle
FairSpec == Spec /\ WF_vars(\E r \in 1 .. Len(reqs) : \E answer \in Pending(r) : Settle(r, answer))

\* the beach-ball component alone: useState(30), useState(60), useState(-90)
\* and the first render
InitBall ==
    /\ InitDashboard
    /\ ball \in Render(30, 60, -90)
    /\ call = NoCall

SpecBall == InitBall /\ [][NextBall]_vars

\* the tensor builder alone, called on any of the arguments
InitCall ==
    /\ InitDashboard
    /\ ball = FirstBall
    /\ call \in Calls

SpecTensor == InitCall /\ [][Return]_vars

\* generateShadedDots alone, called on any of DotCalls
InitDots ==
    /\ InitDashboard
    /\ ball = FirstBall
    /\ call \in DotCalls

NextDots == generateShadedDotsLoop \/ generateShadedDotsReturn

SpecDots == InitDots /\ [][NextDots]_vars

\* generateNodalGreatCircles alone, called on any of CircleCalls
InitCircles ==
    /\ InitDashboard
    /\ ball = FirstBall
    /\ call \in CircleCalls

SpecCircles == InitCircles /\ [][ReturnCircles]_vars

\* downloadWaveforms alone, clicked once one request has run to its end
InitExport ==
    \E a0 \in AzimuthVals : \E c \in Channels : \E a \in Answers[c] :
        LET q == Settled([InitInputs EXCEPT !.azimuth = a0], c, a)
        IN /\ inputs = q.inputs
           /\ reqs = <<q>>
           /\ waveforms = (IF q.status = "done" THEN q.output ELSE InitWaveforms)
           /\ events = (IF a = Nominal[c] THEN 1 ELSE 3)
           /\ ball = FirstBall
           /\ call = NoCall

SpecExport == InitExport /\ [][downloadWaveforms]_vars

\* the two copies side by side: Generate has been clicked in each with the
\* same inputs, and the store gives both the same answers
InitTwin ==
    /\ inputs \in TwinInputs
    /\ waveforms = InitWaveforms
    /\ reqs = <<FirstRequest(inputs)>>
    /\ events = 1
    /\ ball = FirstBall
    /\ call \in {[pc |-> "twin", answers |-> a, req |-> PlotStartRequest(in),
                  waveforms |-> InitWaveforms] : a \in TwinAnswers, in \in {inputs}}

NextTwin == SimSettle \/ PlotSettle

SpecTwin == InitTwin /\ [][NextTwin]_vars

-----------------------------------------------------------------------------
(* Properties of generateWaveforms *)

Issued == 1 .. Len(reqs)
Failed(q, ch) == q.outcome[ch] \in {"rejected", "unparsable"}
FailedSome(q) == \E ch \in Channels : Failed(q, ch)

\* greensData with the trace of every channel whose retrieval failed replaced
\* by an all-zero array of 15520 entries
ZeroSubstituted(q) ==
    [ch \in Channels |->
        IF Failed(q, ch) THEN MkTrace(15520, LAMBDA i : 0) ELSE q.greensData[ch]]

\* C1: when the retrieval of a channel fails (fetch rejects or the body does
\* not parse), the seismogram the request publishes equals the one computed
\* with that channel's trace replaced by 15520 zeros.
C1_FailedChannelIsZeroTrace ==
    \A r \in Issued :
        (reqs[r].status = "done" /\ FailedSome(reqs[r])) =>
            reqs[r].output =
                Combine(ZeroSubstituted(reqs[r]), reqs[r].mt, reqs[r].inputs.azimuth)

\* a request has published although ZDS was rejected, and its Z has samples
C1_Witness ==
    \E r \in Issued :
        /\ reqs[r].status = "done"
        /\ reqs[r].outcome["ZDS"] = "rejected"
        /\ reqs[r].output.Z.len = OutLen
        /\ ~IsZero(Get(reqs[r].output.Z, 0))
        /\ waveforms = reqs[r].output

\* C2: whatever the retrievals come to, generateWaveforms does not throw.
C2_NeverThrows == \A r \in Issued : reqs[r].status # "threw"

\* C3: every generateWaveforms request eventually publishes a seismogram.
C3_EventuallyPublishes ==
    \A r \in 1 .. MaxEvents :
        [](r \in Issued => <>(r \in Issued /\ reqs[r].status = "done"))

\* C4: Z, R and T of every published seismogram have exactly 4000 entries.
C4_OutputLength ==
    \A r \in Issued :
        reqs[r].status = "done" =>
            /\ reqs[r].output.Z.len = 4000
            /\ reqs[r].output.R.len = 4000
            /\ reqs[r].output.T.len = 4000

\* C5: in every stored seismogram Z, R and T have the same length.
C5_EqualLengths ==
    /\ waveforms.Z.len = waveforms.R.len
    /\ waveforms.R.len = waveforms.T.len

\* C6: the combination for a channel of a request begins only after every
\* basis trace that channel needs has been resolved for that request.
C6_ResolvedBeforeCombine ==
    \A r \in Issued :
        reqs[r].status \in {"done", "threw"} =>
            \A c \in {"Z", "R", "T"} :
                \A k \in 1 .. Len(channelMap[c]) : channelMap[c][k] \in reqs[r].resolved

\* a request has combined after one of its channels was resolved by fallback
C6_Witness ==
    \E r \in Issued :
        /\ reqs[r].status = "done"
        /\ FailedSome(reqs[r])
        /\ reqs[r].resolved = Channels

\* the claim's formula at azimuth 0, over 192:
\* Mtt(SS/2 - DD/6 + EP/3) + Mpp(-SS/2 - DD/6 + EP/3) + Mrr(DD/3 + EP/3) + Mrt DS
AtAzimuth0(mt, SS, DD, EP, DS) ==
    Add(Add(Add(
        Mul(mt.Mtt, Add(Sub(Scale(6, SS), Scale(2, DD)), Scale(4, EP))),
        Mul(mt.Mpp, Add(Sub(Scale(-6, SS), Scale(2, DD)), Scale(4, EP)))),
        Mul(mt.Mrr, Add(Scale(4, DD), Scale(4, EP)))),
        Scale(12, Mul(mt.Mrt, DS)))

\* the R traces under the names of the Z traces
RAsZ(g) ==
    [g EXCEPT !["ZSS"] = g["RSS"], !["ZDD"] = g["RDD"],
              !["ZEP"] = g["REP"], !["ZDS"] = g["RDS"]]

\* C7: Z and R apply the same weights to their own four traces, and at
\* azimuth 0 every sample is Mtt(SS/2 - DD/6 + EP/3) + Mpp(-SS/2 - DD/6 + EP/3)
\* + Mrr(DD/3 + EP/3) + Mrt DS, without Mtp and Mrp.
C7_SameWeightsAndAzimuth0 ==
    \A r \in Issued :
        LET q == reqs[r]
            g == q.greensData
        IN q.status = "done" =>
            /\ q.output.R = ComputeZ(RAsZ(g), q.mt, q.inputs.azimuth)
            /\ q.inputs.azimuth = 0 =>
                \A i \in ProbeIdx :
                    /\ i < q.output.Z.len =>
                         q.output.Z.at[i] =
                             AtAzimuth0(q.mt, Sample(g["ZSS"], i), Sample(g["ZDD"], i),
                                        Sample(g["ZEP"], i), Sample(g["ZDS"], i))
                    /\ i < q.output.R.len =>
                         q.output.R.at[i] =
                             AtAzimuth0(q.mt, Sample(g["RSS"], i), Sample(g["RDD"], i),
                                        Sample(g["REP"], i), Sample(g["RDS"], i))

\* a request issued at azimuth 0 with Mtp and Mrp nonzero has published
\* nonzero Z and R samples
C7_Witness ==
    \E r \in Issued :
        /\ reqs[r].status = "done"
        /\ reqs[r].inputs.azimuth = 0
        /\ ~IsZero(reqs[r].mt.Mtp) /\ ~IsZero(reqs[r].mt.Mrp)
        /\ reqs[r].output.Z.len = OutLen /\ reqs[r].output.R.len = OutLen
        /\ ~reqs[r].output.Z.at[OutLen - 1].nan /\ ~IsZero(reqs[r].output.Z.at[OutLen - 1])
        /\ ~reqs[r].output.R.at[0].nan /\ ~IsZero(reqs[r].output.R.at[0])

\* the claim's formula for T, over 192, term by term
TransverseTerms(mt, SS, DS, azimuth) ==
    <<Mul(mt.Mtt, Scale(3, Mul(SS, Sin(2 * azimuth)))),
      Neg(Mul(mt.Mpp, Scale(3, Mul(SS, Sin(2 * azimuth))))),
      Neg(Mul(mt.Mtp, Scale(6, Mul(SS, Cos(2 * azimuth))))),
      Mul(mt.Mrt, Scale(6, Mul(DS, Sin(azimuth)))),
      Neg(Mul(mt.Mrp, Scale(6, Mul(DS, Cos(azimuth)))))>>

Transverse(mt, SS, DS, azimuth) ==
    LET t == TransverseTerms(mt, SS, DS, azimuth)
    IN Add(t[1], Add(t[2], Add(t[3], Add(t[4], t[5]))))

\* the same request state with another Mrr and with other Z and R traces
\* (NaN and empty traces: any use of them would turn the sample into NaN)
OtherMrr(mt) == [mt EXCEPT !.Mrr = NaN]
OtherZR(g) ==
    [ch \in Channels |-> IF ch \in {"TSS", "TDS"} THEN g[ch] ELSE ZeroFill(0)]

\* C8: every sample of T is Mtt(TSS/2 sin2az) - Mpp(TSS/2 sin2az)
\* - Mtp(TSS cos2az) + Mrt(TDS sin az) - Mrp(TDS cos az); T does not depend
\* on Mrr nor on any Z or R trace.
C8_Transverse ==
    \A r \in Issued :
        LET q == reqs[r]
            g == q.greensData
        IN q.status = "done" =>
            /\ \A i \in ProbeIdx : i < q.output.T.len =>
                   q.output.T.at[i] =
                       Transverse(q.mt, Sample(g["TSS"], i), Sample(g["TDS"], i),
                                  q.inputs.azimuth)
            /\ q.output.T = ComputeT(OtherZR(g), OtherMrr(q.mt), q.inputs.azimuth)

\* a request with all of Mtt, Mpp, Mtp, Mrt, Mrp and Mrr nonzero, at an
\* azimuth where no sine or cosine vanishes, has published a nonzero T
C8_Witness ==
    \E r \in Issued :
        LET q == reqs[r]
        IN /\ q.status = "done"
           /\ q.inputs.azimuth = 120
           /\ \A c \in {"Mtt", "Mpp", "Mtp", "Mrt", "Mrp", "Mrr"} : ~IsZero(q.mt[c])
           /\ q.output.T.len = OutLen
           /\ ~q.output.T.at[OutLen - 1].nan /\ ~IsZero(q.output.T.at[OutLen - 1])


-----------------------------------------------------------------------------
(* Properties of the beach ball's axes and of the tensor builder *)

\* C9: P, B and T are the eigen-pairs of the solver in ascending order of
\* eigenvalue (so val of P <= val of B <= val of T), each axis being the
\* solver's column of its eigenvalue, and pairs with equal eigenvalues keep
\* the solver's order.
C9_AxesAscendingStable ==
    LET m == ball.memo
    IN /\ m.P.val <= m.B.val /\ m.B.val <= m.T.val
       /\ {m.P.col, m.B.col, m.T.col} = 1 .. 3
       /\ \A axis \in {m.P, m.B, m.T} : axis.val = m.eigenvalues[axis.col]
       /\ m.P.val = m.B.val => m.P.col < m.B.col
       /\ m.B.val = m.T.val => m.B.col < m.T.col

\* after a slider has moved, the solver returned its largest eigenvalue first
\* and two equal ones after it
C9_Witness ==
    /\ ball.strike # 30
    /\ ball.memo.eigenvalues[1] > ball.memo.eigenvalues[2]
    /\ ball.memo.eigenvalues[2] = ball.memo.eigenvalues[3]
    /\ ball.memo.P.col = 2 /\ ball.memo.B.col = 3 /\ ball.memo.T.col = 1

TraceOf(mt) == Add(Add(mt.Mrr, mt.Mtt), mt.Mpp)

\* C10: for every strike, dip, rake and magnitude the tensor the builder
\* returns has Mrr + Mtt + Mpp = 0 (the model's arithmetic is exact, so the
\* sum is zero itself, which is within any tolerance).
C10_Traceless ==
    call.pc = "returned" => ~TraceOf(call.mt).nan /\ IsZero(TraceOf(call.mt))

\* the builder has returned a tensor whose diagonal is nonzero throughout
C10_Witness ==
    /\ call.pc = "returned"
    /\ call.magnitudeMw = 70 /\ call.strike = 315 /\ call.rake = -120
    /\ ~IsZero(call.mt.Mrr) /\ ~IsZero(call.mt.Mtt) /\ ~IsZero(call.mt.Mpp)
    /\ call.mt.Mrr # call.mt.Mtt

-----------------------------------------------------------------------------
(* Properties of the radiation amplitude and of the polarity samples *)

\* C11: the amplitude at a direction d equals the amplitude at -d, for the
\* direction of every sample of generateShadedDots and, for the same tensor
\* (looked at when the call starts), of every vertex of generateRadiationLobe.
C11_AmplitudeEven ==
    call.pc \in {"loop", "returned"} =>
        /\ \A k \in 1 .. Len(call.dots) :
              LET d == Normalize(call.dots[k].pos)
              IN Amplitude(call.mt, d) = Amplitude(call.mt, NegVec(d))
        /\ call.i = 0 =>
              \A ij \in LobeProbes :
                  LobeAmplitude(call.mt, ij[1], ij[2]) =
                      Amplitude(call.mt, NegVec(LobeDir(ij[1], ij[2])))

\* a sample whose direction has three nonzero components, for a tensor whose
\* six components are nonzero, and whose amplitude is not zero
C11_Witness ==
    /\ call.pc = "returned"
    /\ \A c \in {"Mrr", "Mtt", "Mpp", "Mrt", "Mrp", "Mtp"} : ~IsZero(call.mt[c])
    /\ \E k \in 1 .. Len(call.dots) :
          LET d == Normalize(call.dots[k].pos)
          IN /\ \A n \in 1 .. 3 : ~d[n].nan /\ ~IsZero(d[n])
             /\ ~IsZero(Amplitude(call.mt, d))

\* C12: generateShadedDots(mt, count) returns count samples, each with
\* z <= 0, each black when its amplitude u (at its normalized position) is
\* >= 0 and white otherwise.
C12_DotsCountHemispherePolarity ==
    call.pc = "returned" /\ "dots" \in DOMAIN call =>
        /\ Len(call.dots) = call.count
        /\ \A k \in 1 .. Len(call.dots) :
              LET dot == call.dots[k]
                  u == Amplitude(call.mt, Normalize(dot.pos))
              IN /\ ~dot.pos[3].nan /\ Sign(dot.pos[3]) <= 0
                 /\ dot.color \in {"black", "white"}
                 /\ dot.color = "black" <=> (~u.nan /\ Sign(u) >= 0)

\* a call has returned at least two samples, one of amplitude zero, which
\* is black, and one of negative amplitude, which is white
C12_Witness ==
    /\ call.pc = "returned" /\ "dots" \in DOMAIN call
    /\ call.count >= 2
    /\ \E k, n \in 1 .. Len(call.dots) :
          /\ Sign(Amplitude(call.mt, Normalize(call.dots[k].pos))) = 0
          /\ Sign(Amplitude(call.mt, Normalize(call.dots[n].pos))) = -1
          /\ call.dots[k].color = "black" /\ call.dots[n].color = "white"
          /\ Sign(call.dots[n].pos[3]) = -1

-----------------------------------------------------------------------------
(* Properties of the nodal great circles *)

\* the two points v / sqrt(len2) are the same point
SamePoint(p, q) ==
    \A n \in 1 .. 3 :
        /\ Sign(p.v[n]) = Sign(q.v[n])
        /\ Mul(Mul(p.v[n], p.v[n]), q.len2) = Mul(Mul(q.v[n], q.v[n]), p.len2)

\* the point v / sqrt(len2) has length 1
UnitLength(p) == ~IsZero(p.len2) /\ ~p.len2.nan /\ LengthSq(p.v) = p.len2

\* C13: for every plane, the loop's first point (a = 0) equals its last
\* point (a = 360), and every point of the loop has length 1 (equality and
\* length are taken up to terms of the order of the rounding error).
C13_ClosedUnitLoops ==
    call.pc = "returned" /\ "nodalLines" \in DOMAIN call =>
        \A n \in DOMAIN call.nodalLines :
            /\ SamePoint(call.nodalLines[n][0], call.nodalLines[n][360])
            /\ \A a \in AzProbes : UnitLength(call.nodalLines[n][a])

\* the angle in degrees whose cosine is x (x over 4), in exact arithmetic
ArcCosine(x) ==
    CHOOSE d \in {0, 30, 45, 60, 90, 120, 135, 150, 180} : Scale(2, Cos(d)) = x

\* C14: generateNodalGreatCircles works on two planes and returns two loops:
\* plane 1 is (strike, dip) as given, plane 2 has strike (strike + 90) mod 360
\* and dip acos(cos(dip) cos(90 degrees)).
C14_TwoPlanes ==
    call.pc = "returned" /\ "nodalLines" \in DOMAIN call =>
        /\ Len(call.planes) = 2
        /\ DOMAIN call.nodalLines = 1 .. 2
        /\ call.planes[1] = [strike |-> call.strikeDeg, dip |-> call.dipDeg]
        /\ call.planes[2].strike = (call.strikeDeg + 90) % 360
        /\ call.planes[2].dip = ArcCosine(Mul(Cos(call.dipDeg), Cos(90)))
        /\ \A n \in 1 .. 2 : call.nodalLines[n] = GreatCircle(call.planes[n])

\* a call with strike 315 and dip 60 has returned: the auxiliary strike has
\* wrapped to 45 and the two planes differ
C14_Witness ==
    /\ call.pc = "returned" /\ "nodalLines" \in DOMAIN call
    /\ call.strikeDeg = 315 /\ call.dipDeg = 60
    /\ call.planes[2] = [strike |-> 45, dip |-> 90]
    /\ call.nodalLines[1] # call.nodalLines[2]

\* x multiplied by 10^(h/100)
TimesPow10(x, h) == IF x.nan \/ IsZero(x) THEN x ELSE [x EXCEPT !.e = x.e + h]

\* the array whose every entry is that of a multiplied by 10^(h/100)
ScaledArray(a, h) ==
    [a EXCEPT !.at = [i \in ProbeIdx |-> TimesPow10(a.at[i], h)]]

\* q was issued with the inputs of p except for a magnitude larger by 1
MagnitudeStep(p, q) ==
    /\ q.inputs = [p.inputs EXCEPT !.magnitude = p.inputs.magnitude + 10]
    /\ q.greensData = p.greensData

TensorComponents == {"Mrr", "Mtt", "Mpp", "Mrt", "Mrp", "Mtp"}

\* C15: raising the magnitude by 1 multiplies M0 and each of the six tensor
\* components by 10^1.5, and every sample of Z, R and T synthesized from the
\* same basis data by that same factor.
C15_MagnitudeScaling ==
    \A i, j \in DOMAIN reqs :
        LET p == reqs[i]
            q == reqs[j]
        IN q.inputs = [p.inputs EXCEPT !.magnitude = p.inputs.magnitude + 10] =>
            /\ M0(q.inputs.magnitude) = TimesPow10(M0(p.inputs.magnitude), 150)
            /\ \A c \in TensorComponents : q.mt[c] = TimesPow10(p.mt[c], 150)
            /\ MagnitudeStep(p, q) /\ p.status = "done" /\ q.status = "done" =>
                   \A k \in {"Z", "R", "T"} :
                       q.output[k] = ScaledArray(p.output[k], 150)

\* two requests differing by one unit of magnitude have both published a
\* seismogram with non-zero samples in each of Z, R and T
C15_Witness ==
    \E i, j \in DOMAIN reqs :
        /\ MagnitudeStep(reqs[i], reqs[j])
        /\ reqs[i].status = "done" /\ reqs[j].status = "done"
        /\ \A k \in {"Z", "R", "T"} :
               /\ reqs[i].output[k].len = OutLen
               /\ ~reqs[i].output[k].at[0].nan
               /\ ~IsZero(reqs[i].output[k].at[0])
        /\ \E c \in TensorComponents : ~IsZero(reqs[i].mt[c])

\* C16: the export is the header `time,Z,R,T` followed by one row per sample
\* index i of the stored seismogram, and row i carries the texts of i/4,
\* Z[i], R[i] and T[i], four defined values.
C16_ExportRows ==
    call.pc = "downloaded" =>
        /\ call.csv.header = "time,Z,R,T"
        /\ \A k \in {"Z", "R", "T"} : call.csv.len = waveforms[k].len
        /\ \A i \in ProbeIdx : i < call.csv.len =>
               /\ call.csv.at[i][1] = [text |-> "decimal", of |-> Rat(i)]
               /\ call.csv.at[i][2] = TemplateText(Elem(waveforms.Z, i))
               /\ call.csv.at[i][3] = TemplateText(Elem(waveforms.R, i))
               /\ call.csv.at[i][4] = TemplateText(Elem(waveforms.T, i))
               /\ \A n \in 1 .. 4 : call.csv.at[i][n].text # "undefined"

\* the number of fetches of channel ch that request q has issued
TimesFetched(q, ch) == Cardinality({k \in DOMAIN q.log : q.log[k] = ch})

\* C17: within one request each of the ten basis channels is requested
\* exactly once (all ten by the time the request has run to its end), and a
\* channel whose retrieval failed is never requested again.
C17_FetchedOnce ==
    \A r \in DOMAIN reqs :
        LET q == reqs[r]
        IN /\ \A ch \in Channels : TimesFetched(q, ch) <= 1
           /\ q.status \in {"done", "threw"} =>
                  /\ Cardinality(Channels) = 10
                  /\ \A ch \in Channels : TimesFetched(q, ch) = 1
           /\ \A ch \in Channels :
                  q.outcome[ch] \in {"rejected", "unparsable"} =>
                      /\ TimesFetched(q, ch) = 1
                      /\ q.greensData[ch] = Fallback

\* a request has run to its end after the retrieval of one of its channels
\* failed: the failed channel and the channels after it were fetched once
C17_Witness ==
    \E r \in DOMAIN reqs :
        /\ reqs[r].status = "done"
        /\ reqs[r].outcome["ZDD"] = "rejected"
        /\ Len(reqs[r].log) = 10
        /\ reqs[r].log[2] = "ZDD"

\* d^T M d, the sum of the nine products d[i] M[i][j] d[j]
RowForm(M, d, i) ==
    Add(Add(Mul(Mul(d[i], M[i][1]), d[1]), Mul(Mul(d[i], M[i][2]), d[2])),
        Mul(Mul(d[i], M[i][3]), d[3]))
QuadForm(M, d) == Add(Add(RowForm(M, d, 1), RowForm(M, d, 2)), RowForm(M, d, 3))

\* the directions at which the rendered component evaluates the amplitude
SampleDirs == {Normalize(Dot(ball.memo.mt, theta, phi).pos) :
                   theta \in ThetaVals, phi \in PhiVals}
LobeDirs == {LobeDir(ij[1], ij[2]) : ij \in LobeProbes}

\* C18: the amplitude used for the samples' polarity and for the lobe is
\* d^T M d for the symmetric matrix M assembled for the principal-axis
\* solver from the six components.
C18_QuadraticForm ==
    /\ \A i, j \in 1 .. 3 : ball.memo.M[i][j] = ball.memo.M[j][i]
    /\ ball.memo.M[1] = <<ball.memo.mt.Mrr, ball.memo.mt.Mrt, ball.memo.mt.Mrp>>
    /\ ball.memo.M[2][2] = ball.memo.mt.Mtt
    /\ ball.memo.M[2][3] = ball.memo.mt.Mtp
    /\ ball.memo.M[3][3] = ball.memo.mt.Mpp
    /\ \A d \in SampleDirs \cup LobeDirs :
           Amplitude(ball.memo.mt, d) = QuadForm(ball.memo.M, d)
    /\ \A theta \in ThetaVals : \A phi \in PhiVals :
           LET dot == Dot(ball.memo.mt, theta, phi)
               u == QuadForm(ball.memo.M, Normalize(dot.pos))
           IN dot.color = "black" <=> GE0(u)

\* after the strike slider has moved, the component has rendered a tensor
\* whose Mrp and Mtp differ and are not zero, and a sample direction with
\* three non-zero components at which the amplitude is negative
C18_Witness ==
    /\ ball.strike # 30
    /\ ~IsZero(ball.memo.mt.Mrp) /\ ~IsZero(ball.memo.mt.Mtp)
    /\ ball.memo.mt.Mrp # ball.memo.mt.Mtp
    /\ \E d \in SampleDirs :
           /\ \A n \in 1 .. 3 : ~d[n].nan /\ ~IsZero(d[n])
           /\ ~GE0(QuadForm(ball.memo.M, d))

\* C19: when the most recently issued request was issued while an earlier
\* one was still fetching, then once every request has completed the stored
\* waveforms are those of the most recently issued request.
C19_LatestRequestWins ==
    \A i \in DOMAIN reqs :
        LET j == Len(reqs)
        IN /\ i \in reqs[j].during
           /\ \A k \in DOMAIN reqs : reqs[k].status = "done"
           => waveforms = reqs[j].output

\* what a request issued with the inputs `in` computes from the basis data g
ComputedFrom(in, g) ==
    Combine(g, strikeDipRakeToMomentTensor(in.strike, in.dip, in.rake, in.magnitude),
            in.azimuth)

\* one step of the dashboard, as C20 describes it
C20_Step ==
    /\ Len(reqs') > Len(reqs) => reqs'[Len(reqs')].inputs = inputs
    /\ inputs' # inputs => reqs' = reqs /\ waveforms' = waveforms
    /\ \A r \in DOMAIN reqs :
           /\ reqs'[r].inputs = reqs[r].inputs
           /\ reqs'[r].status = "done" /\ reqs[r].status # "done" =>
                  /\ reqs'[r].output = ComputedFrom(reqs[r].inputs, reqs'[r].greensData)
                  /\ waveforms' = reqs'[r].output
           /\ reqs[r].status = "done" => reqs'[r] = reqs[r]
    /\ waveforms' # waveforms =>
           \E r \in DOMAIN reqs :
               /\ reqs[r].status = "fetching" /\ reqs'[r].status = "done"
               /\ \A k \in {"Z", "R", "T"} : waveforms'[k] = reqs'[r].output[k]

\* C20: a request computes Z, R and T from the inputs as they were when it
\* was issued and publishes the three together in one state update; an
\* edit of the inputs changes neither a pending request nor the stored
\* waveforms, which are always those of one request.
C20_SnapshotAndAtomicPublish == [][C20_Step]_vars

\* the inputs were edited while the first request was fetching (the second
\* request, issued before the first had finished, carries other inputs),
\* and the first request has published its three channels
C20_Witness ==
    /\ Len(reqs) >= 2
    /\ 1 \in reqs[2].during
    /\ reqs[2].inputs # reqs[1].inputs
    /\ reqs[1].status = "done"
    /\ waveforms = reqs[1].output
    /\ \A k \in {"Z", "R", "T"} : waveforms[k].len = OutLen
    /\ reqs[1].inputs # inputs

\* s is a prefix of t or t is a prefix of s
Compatible(s, t) ==
    \A k \in 1 .. Min(Len(s), Len(t)) : s[k] = t[k]

\* C21: started with the same inputs and given the same answers by the
\* store, generateWaveforms of SeismicSimulator and generateWaveforms of
\* SeismicPlot request the same channels in the same order and, when both
\* have ended, have published the same Z, R and T (or have both thrown).
C21_TwinsEquivalent ==
    call.pc = "twin" =>
        /\ Compatible(reqs[1].log, call.req.log)
        /\ reqs[1].status # "fetching" /\ call.req.status # "fetching" =>
               /\ reqs[1].log = call.req.log
               /\ reqs[1].status = call.req.status
               /\ reqs[1].output = call.req.output
               /\ waveforms = call.waveforms

\* both copies have published, at azimuth 120, after the retrieval of RDD
\* was rejected: ten requests each, and non-zero samples in Z, R and T
C21_Witness ==
    /\ call.pc = "twin"
    /\ inputs.azimuth = 120
    /\ call.answers["RDD"] = Rejected
    /\ reqs[1].status = "done" /\ call.req.status = "done"
    /\ Len(call.req.log) = 10
    /\ \A k \in {"Z", "R", "T"} :
           /\ call.waveforms[k].len = OutLen
           /\ ~call.waveforms[k].at[0].nan /\ ~IsZero(call.waveforms[k].at[0])

====
